---------------------------- MODULE Spec2Model ----------------------------
(***************************************************************************)
(* Model of xplat/rename.py: the filename normalizer (safe_stem and its    *)
(* helpers), the path builder (make_safe_path) and the file operator       *)
(* (rename_file) acting on a file system.                                  *)
(*                                                                         *)
(* A Python str is modelled as a sequence of one-character strings:        *)
(* "a-b" is <<"a", "-", "b">>.                                             *)
(***************************************************************************)
EXTENDS Naturals, Sequences, FiniteSets

VARIABLES
  name,      \* SpecNorm: the stem handed to safe_stem
  style,     \* SpecNorm: the Style handed to safe_stem
  out,       \* SpecNorm: safe_stem(name, style), once computed
  again,     \* SpecNorm: safe_stem(out, style), once computed
  npc,       \* SpecNorm: "start" -> "once" -> "twice"
  fs,        \* the file system: what lies at each path
  isdir,     \* which of the directories exist
  platform,  \* "posix" or "windows": decides what os.rename does
  startFs,   \* the file system as the call(s) found it
  pc,        \* Spec: "ready" -> "returned"
  call,      \* Spec: the arguments of the rename_file call
  result,    \* Spec: what the call returned or raised
  procs      \* SpecRace: each caller's arguments, locals and position

----------------------------------------------------------------------------
(* Characters.  The classes are those of str.isalnum, str.lower,           *)
(* str.title and the regular expression \s on the characters listed.       *)

LowerLetters == {"a", "b", "t", "é"}
UpperLetters == {"A", "B", "T", "É"}
DigitChars   == {"2"}
SpaceChars   == {" ", "\t"}
OtherChars   == {".", "-", "_", "!"}

Chars == LowerLetters \cup UpperLetters \cup DigitChars \cup SpaceChars \cup OtherChars

\* str.isalnum
isalnum(c) == c \in LowerLetters \cup UpperLetters \cup DigitChars

\* a cased character, as str.title and str.lower see it
iscased(c) == c \in LowerLetters \cup UpperLetters

\* re \s on a str pattern, and what str.strip() strips
isspace(c) == c \in SpaceChars

\* str.lower on one character
lower(c) ==
  CASE c = "A" -> "a"
    [] c = "B" -> "b"
    [] c = "T" -> "t"
    [] c = "É" -> "é"
    [] OTHER   -> c

\* str.upper / the title-case mapping on one character
upper(c) ==
  CASE c = "a" -> "A"
    [] c = "b" -> "B"
    [] c = "t" -> "T"
    [] c = "é" -> "É"
    [] OTHER   -> c

----------------------------------------------------------------------------
(* String helpers: the str methods the code calls.                         *)

\* s.lower()
str_lower(s) == [i \in 1..Len(s) |-> lower(s[i])]

\* s.replace(ch, delim) for a one-character ch
str_replace_char(s, ch, delim) ==
  [i \in 1..Len(s) |-> IF s[i] = ch THEN delim ELSE s[i]]

\* s.replace(delim + delim, delim): one left-to-right pass over
\* non-overlapping occurrences
RECURSIVE str_replace_double(_, _)
str_replace_double(s, delim) ==
  IF Len(s) < 2 THEN s
  ELSE IF s[1] = delim /\ s[2] = delim
       THEN <<delim>> \o str_replace_double(SubSeq(s, 3, Len(s)), delim)
       ELSE <<s[1]>> \o str_replace_double(Tail(s), delim)

\* (delim + delim) in s
has_double(s, delim) ==
  \E i \in 1..(Len(s) - 1) : s[i] = delim /\ s[i + 1] = delim

\* s.lstrip / s.rstrip / s.strip of the characters in the set cs
RECURSIVE str_lstrip(_, _)
str_lstrip(s, cs) ==
  IF s # <<>> /\ Head(s) \in cs THEN str_lstrip(Tail(s), cs) ELSE s

RECURSIVE str_rstrip(_, _)
str_rstrip(s, cs) ==
  IF s # <<>> /\ s[Len(s)] \in cs
  THEN str_rstrip(SubSeq(s, 1, Len(s) - 1), cs) ELSE s

str_strip(s, cs) == str_rstrip(str_lstrip(s, cs), cs)

\* "".join(c for c in s if c.isalnum() or c in allowed)
keep_alnum_or(s, allowed) ==
  SelectSeq(s, LAMBDA c : isalnum(c) \/ c \in allowed)

\* p.title(): a cased character is upper-cased when the character before
\* it is not cased, and lower-cased when it is
RECURSIVE title_from(_, _)
title_from(s, prev_cased) ==
  IF s = <<>> THEN <<>>
  ELSE LET c == Head(s)
       IN  <<IF iscased(c)
               THEN (IF prev_cased THEN lower(c) ELSE upper(c))
               ELSE c>>
           \o title_from(Tail(s), iscased(c))

str_title(s) == title_from(s, FALSE)

\* re.split(r"[ .\-_]+", s): the pieces between maximal runs of the
\* separators, empty pieces at either end included
CamelSeparators == {" ", ".", "-", "_"}

RECURSIVE re_split_from(_, _, _)
re_split_from(s, cur, in_run) ==
  IF s = <<>> THEN <<cur>>
  ELSE IF Head(s) \in CamelSeparators
       THEN IF in_run
            THEN re_split_from(Tail(s), cur, TRUE)
            ELSE <<cur>> \o re_split_from(Tail(s), <<>>, TRUE)
       ELSE re_split_from(Tail(s), Append(cur, Head(s)), FALSE)

re_split(s) == re_split_from(s, <<>>, FALSE)

\* "".join(parts)
RECURSIVE str_join(_)
str_join(parts) ==
  IF parts = <<>> THEN <<>> ELSE Head(parts) \o str_join(Tail(parts))

----------------------------------------------------------------------------
(* The normalizer.                                                         *)

Styles == {"web", "snake", "kebab", "camel"}

\* _normalize_whitespace: re.sub(r"\s", " ", name).strip()
_normalize_whitespace(s) ==
  str_strip([i \in 1..Len(s) |-> IF isspace(s[i]) THEN " " ELSE s[i]],
            SpaceChars)

\* for ch in convert_chars: result = result.replace(ch, delim)
RECURSIVE convert_all(_, _, _)
convert_all(s, convert_chars, delim) ==
  IF convert_chars = <<>> THEN s
  ELSE convert_all(str_replace_char(s, Head(convert_chars), delim),
                   Tail(convert_chars), delim)

\* collapse with the loop left out: runs of the delimiter stay as they are
collapse_skipped(s, delim) == s

\* while double in result: result = result.replace(double, delim)
RECURSIVE collapse(_, _)
collapse(s, delim) ==
  IF has_double(s, delim) THEN collapse(str_replace_double(s, delim), delim)
  ELSE s

\* allowed = {delim} | ({"_"} if delim == "-" and "_" not in convert_chars
\*                      else set())
allowed_chars(delim, convert_chars) ==
  {delim} \cup
  (IF delim = "-" /\ ~(\E i \in 1..Len(convert_chars) : convert_chars[i] = "_")
   THEN {"_"} ELSE {})

\* _apply_delimiter_style with the delimiters stripped before the filter
\* instead of after the collapse
_apply_delimiter_style_strip_first(s, delim, convert_chars) ==
  LET lowered   == str_lower(s)
      converted == convert_all(lowered, convert_chars, delim)
      stripped  == str_strip(converted, {delim})
      filtered  == keep_alnum_or(stripped, allowed_chars(delim, convert_chars))
  IN  collapse(filtered, delim)

\* _apply_delimiter_style without the final strip(delim)
_apply_delimiter_style_no_strip(s, delim, convert_chars) ==
  LET lowered   == str_lower(s)
      converted == convert_all(lowered, convert_chars, delim)
      filtered  == keep_alnum_or(converted, allowed_chars(delim, convert_chars))
  IN  collapse(filtered, delim)

_apply_delimiter_style(s, delim, convert_chars) ==
  LET lowered   == str_lower(s)
      converted == convert_all(lowered, convert_chars, delim)
      filtered  == keep_alnum_or(converted, allowed_chars(delim, convert_chars))
      collapsed == collapse(filtered, delim)
  IN  str_strip(collapsed, {delim})

_apply_camel(s) ==
  LET parts       == re_split(s)
      cleaned     == [i \in 1..Len(parts) |-> keep_alnum_or(parts[i], {})]
      clean_parts == SelectSeq(cleaned, LAMBDA p : p # <<>>)
  IN  IF clean_parts = <<>> THEN <<>>
      ELSE str_lower(clean_parts[1])
           \o str_join([i \in 1..(Len(clean_parts) - 1) |->
                          str_title(clean_parts[i + 1])])

\* _STYLE_CONFIG: style -> (delimiter, characters converted to it)
_STYLE_CONFIG(st) ==
  CASE st = "web"   -> [delim |-> "-", convert_chars |-> <<" ", ".">>]
    [] st = "snake" -> [delim |-> "_", convert_chars |-> <<" ", ".", "-">>]
    [] st = "kebab" -> [delim |-> "-", convert_chars |-> <<" ", ".", "_">>]

safe_stem(s, st) ==
  LET normalized == _normalize_whitespace(s)
  IN  IF normalized = <<>> THEN <<>>
      ELSE IF st = "camel" THEN _apply_camel(normalized)
      ELSE _apply_delimiter_style(normalized, _STYLE_CONFIG(st).delim,
                                  _STYLE_CONFIG(st).convert_chars)

----------------------------------------------------------------------------
(* Paths and the file system.  A path is a directory and a file name; a    *)
(* node is what lies at a path.  Paths differing in any character are      *)
(* different files (a case-sensitive file system).                         *)

NoDir == "None"

\* the names files start with, and the names make_safe_path gives them
N_Ab   == <<"A", " ", "b", ".", "T">>
N_adb  == <<"a", ".", "b", ".", "t">>
N_safe == <<"a", "-", "b", ".", "t">>
N_bang == <<"!", ".", "t">>

InitNames == {N_Ab, N_adb, N_safe, N_bang}

DirNames == {"d", "t"}

Absent       == [kind |-> "none", data |-> ""]
Directory    == [kind |-> "dir", data |-> ""]
LinkToFile   == [kind |-> "symlink", data |-> "to_file"]
DanglingLink == [kind |-> "symlink", data |-> "dangling"]
RegularFile(content) == [kind |-> "file", data |-> content]

\* the position of the last "." of a name, 0 when it has none: name.rfind(".")
rfind_dot(n) ==
  IF \E i \in 1..Len(n) : n[i] = "."
  THEN CHOOSE i \in 1..Len(n) :
         n[i] = "." /\ \A j \in (i + 1)..Len(n) : n[j] # "."
  ELSE 0

\* PurePath.suffix: from the last dot on, unless the dot is the first or
\* the last character of the name
path_suffix(n) ==
  LET i == rfind_dot(n)
  IN  IF 1 < i /\ i < Len(n) THEN SubSeq(n, i, Len(n)) ELSE <<>>

\* PurePath.stem: the name without its suffix
path_stem(n) ==
  LET i == rfind_dot(n)
  IN  IF 1 < i /\ i < Len(n) THEN SubSeq(n, 1, i - 1) ELSE n

\* Path.is_symlink
is_symlink(F, p) == F[p].kind = "symlink"

\* Path.is_file: a regular file, or a symbolic link to one
is_file(F, p) == F[p].kind = "file" \/ F[p] = LinkToFile

\* Path.exists: follows symbolic links, so a dangling link does not exist
exists(F, p) == F[p].kind \in {"file", "dir"} \/ F[p] = LinkToFile

\* Path.is_dir of a target directory
is_dir(D, dir) == D[dir]

\* make_safe_path: the new path, or ValueError when the stem sanitizes to
\* nothing
make_safe_path(orig_path, target_dir, st) ==
  LET stem     == safe_stem(path_stem(orig_path.name), st)
      new_name == stem \o str_lower(path_suffix(orig_path.name))
  IN  IF stem = <<>>
      THEN [exc |-> "ValueError", path |-> orig_path]
      ELSE [exc  |-> "none",
            path |-> [dir  |-> IF target_dir # NoDir THEN target_dir
                               ELSE orig_path.dir,
                      name |-> new_name]]

OrigPaths ==
  {[dir |-> "d", name |-> n] : n \in InitNames}
    \cup {[dir |-> "t", name |-> N_safe]}

Targets == {NoDir} \cup DirNames

\* every path a call can name or produce
Paths ==
  OrigPaths \cup
  {make_safe_path(o, tg, st).path : o \in OrigPaths, tg \in Targets, st \in Styles}

\* os.rename that copies the source to the destination and leaves the
\* source in place
os_rename_keeps_source(F, D, plat, src, dst) ==
  IF F[src].kind = "none" \/ ~D[dst.dir]
  THEN [exc |-> "FileNotFoundError", fs |-> F]
  ELSE IF src = dst THEN [exc |-> "none", fs |-> F]
  ELSE IF plat = "windows" /\ F[dst].kind # "none"
  THEN [exc |-> "FileExistsError", fs |-> F]
  ELSE IF F[dst].kind = "dir"
  THEN [exc |-> "IsADirectoryError", fs |-> F]
  ELSE [exc |-> "none", fs |-> [F EXCEPT ![dst] = F[src]]]

\* Path.rename (os.rename) of a file or link src to dst.  On POSIX an
\* existing file or link at dst is replaced silently and a directory there
\* is an error; on Windows anything at dst is FileExistsError.
os_rename(F, D, plat, src, dst) ==
  IF F[src].kind = "none" \/ ~D[dst.dir]
  THEN [exc |-> "FileNotFoundError", fs |-> F]
  ELSE IF src = dst THEN [exc |-> "none", fs |-> F]
  ELSE IF plat = "windows" /\ F[dst].kind # "none"
  THEN [exc |-> "FileExistsError", fs |-> F]
  ELSE IF F[dst].kind = "dir"
  THEN [exc |-> "IsADirectoryError", fs |-> F]
  ELSE [exc |-> "none", fs |-> [F EXCEPT ![dst] = F[src], ![src] = Absent]]

\* what a call gives back: the exception raised ("none": it returned), the
\* function that raised it, the path returned or named, the file system
Outcome(exc, by, path, F) == [exc |-> exc, by |-> by, path |-> path, fs |-> F]

\* rename_file with the is_file check ahead of the is_symlink check
rename_file_file_check_first(F, D, plat, orig_path, target_dir, dry_run, st) ==
  IF ~is_file(F, orig_path)
  THEN Outcome("FileNotFoundError", "rename_file", orig_path, F)
  ELSE IF is_symlink(F, orig_path)
  THEN Outcome("OSError", "rename_file", orig_path, F)
  ELSE IF target_dir # NoDir /\ ~is_dir(D, target_dir)
  THEN Outcome("NotADirectoryError", "rename_file", orig_path, F)
  ELSE
    LET made     == make_safe_path(orig_path, target_dir, st)
        new_path == made.path
    IN  IF made.exc # "none"
        THEN Outcome(made.exc, "make_safe_path", orig_path, F)
        ELSE IF ~dry_run /\ exists(F, new_path)
        THEN Outcome("FileExistsError", "rename_file", new_path, F)
        ELSE IF ~dry_run
        THEN LET moved == os_rename(F, D, plat, orig_path, new_path)
             IN  Outcome(moved.exc, "os.rename", new_path, moved.fs)
        ELSE Outcome("none", "rename_file", new_path, F)

\* rename_file that renames also when dry_run is set
rename_file_dry_run_renames(F, D, plat, orig_path, target_dir, dry_run, st) ==
  IF is_symlink(F, orig_path)
  THEN Outcome("OSError", "rename_file", orig_path, F)
  ELSE IF ~is_file(F, orig_path)
  THEN Outcome("FileNotFoundError", "rename_file", orig_path, F)
  ELSE IF target_dir # NoDir /\ ~is_dir(D, target_dir)
  THEN Outcome("NotADirectoryError", "rename_file", orig_path, F)
  ELSE
    LET made     == make_safe_path(orig_path, target_dir, st)
        new_path == made.path
    IN  IF made.exc # "none"
        THEN Outcome(made.exc, "make_safe_path", orig_path, F)
        ELSE IF ~dry_run /\ exists(F, new_path)
        THEN Outcome("FileExistsError", "rename_file", new_path, F)
        ELSE LET moved == os_rename(F, D, plat, orig_path, new_path)
             IN  Outcome(moved.exc, "os.rename", new_path, moved.fs)

\* rename_file that takes a new path equal to the original as done
rename_file_allows_same_path(F, D, plat, orig_path, target_dir, dry_run, st) ==
  IF is_symlink(F, orig_path)
  THEN Outcome("OSError", "rename_file", orig_path, F)
  ELSE IF ~is_file(F, orig_path)
  THEN Outcome("FileNotFoundError", "rename_file", orig_path, F)
  ELSE IF target_dir # NoDir /\ ~is_dir(D, target_dir)
  THEN Outcome("NotADirectoryError", "rename_file", orig_path, F)
  ELSE
    LET made     == make_safe_path(orig_path, target_dir, st)
        new_path == made.path
    IN  IF made.exc # "none"
        THEN Outcome(made.exc, "make_safe_path", orig_path, F)
        ELSE IF ~dry_run /\ new_path # orig_path /\ exists(F, new_path)
        THEN Outcome("FileExistsError", "rename_file", new_path, F)
        ELSE IF ~dry_run
        THEN LET moved == os_rename(F, D, plat, orig_path, new_path)
             IN  Outcome(moved.exc, "os.rename", new_path, moved.fs)
        ELSE Outcome("none", "rename_file", new_path, F)

\* rename_file, run to its end with nothing else touching the file system
rename_file(F, D, plat, orig_path, target_dir, dry_run, st) ==
  IF is_symlink(F, orig_path)
  THEN Outcome("OSError", "rename_file", orig_path, F)
  ELSE IF ~is_file(F, orig_path)
  THEN Outcome("FileNotFoundError", "rename_file", orig_path, F)
  ELSE IF target_dir # NoDir /\ ~is_dir(D, target_dir)
  THEN Outcome("NotADirectoryError", "rename_file", orig_path, F)
  ELSE
    LET made     == make_safe_path(orig_path, target_dir, st)
        new_path == made.path
    IN  IF made.exc # "none"
        THEN Outcome(made.exc, "make_safe_path", orig_path, F)
        ELSE IF ~dry_run /\ exists(F, new_path)
        THEN Outcome("FileExistsError", "rename_file", new_path, F)
        ELSE IF ~dry_run
        THEN LET moved == os_rename(F, D, plat, orig_path, new_path)
             IN  Outcome(moved.exc, "os.rename", new_path, moved.fs)
        ELSE Outcome("none", "rename_file", new_path, F)

----------------------------------------------------------------------------
(* State shared by the three specifications.  Each one moves its own       *)
(* variables and leaves the others at their idle values.                   *)

vars == <<name, style, out, again, npc,
          fs, isdir, platform, startFs, pc, call, result, procs>>

NoStr == <<"?">>

NoCall ==
  [orig_path |-> [dir |-> "d", name |-> <<>>], target_dir |-> NoDir,
   dry_run |-> FALSE, style |-> "web"]

NoResult == [exc |-> "-", by |-> "-", path |-> [dir |-> "d", name |-> <<>>]]

Procs == {"p1", "p2"}

IdleProc ==
  [pc |-> "idle", orig_path |-> [dir |-> "d", name |-> <<>>],
   target_dir |-> NoDir, dry_run |-> FALSE, style |-> "web",
   new_path |-> [dir |-> "d", name |-> <<>>], exc |-> "-", by |-> "-"]

NormIdle ==
  /\ name = <<>> /\ style = "web" /\ out = NoStr /\ again = NoStr
  /\ npc = "idle"

CallIdle == pc = "idle" /\ call = NoCall /\ result = NoResult

RaceIdle == procs = [p \in Procs |-> IdleProc]

EmptyFs == [p \in Paths |-> Absent]

FsIdle ==
  /\ fs = EmptyFs /\ startFs = EmptyFs
  /\ isdir = [dir \in DirNames |-> TRUE]
  /\ platform = "posix"

----------------------------------------------------------------------------
(* SpecNorm: safe_stem applied to every stem of at most MaxLen characters, *)
(* in every style, and then applied again to its own output.               *)

MaxLen == 4

InChars == {"a", "B", "2", " ", "\t", ".", "-", "_", "!", "é"}

Stems == UNION {[1..n -> InChars] : n \in 0..MaxLen}

InitNorm ==
  /\ name \in Stems
  /\ style \in Styles
  /\ out = NoStr
  /\ again = NoStr
  /\ npc = "start"
  /\ FsIdle /\ CallIdle /\ RaceIdle

Normalize ==
  /\ npc = "start"
  /\ out' = safe_stem(name, style)
  /\ npc' = "once"
  /\ UNCHANGED <<name, style, again>>
  /\ UNCHANGED <<fs, isdir, platform, startFs, pc, call, result, procs>>

Renormalize ==
  /\ npc = "once"
  /\ again' = safe_stem(out, style)
  /\ npc' = "twice"
  /\ UNCHANGED <<name, style, out>>
  /\ UNCHANGED <<fs, isdir, platform, startFs, pc, call, result, procs>>

NextNorm == Normalize \/ Renormalize

SpecNorm == InitNorm /\ [][NextNorm]_vars

----------------------------------------------------------------------------
(* Spec: one rename_file call, run to its end, from every file system of   *)
(* InitFs.  rename_file keeps no state between calls: what a call does is  *)
(* decided by its arguments and the file system it finds.                  *)

Platforms == {"posix", "windows"}

AnyNode(content) ==
  {Absent, RegularFile(content), Directory, LinkToFile, DanglingLink}

\* the file systems a call may find: anything at the two names in "d" that
\* the claims turn on, a file or nothing at the others, and directory "t"
\* either missing or holding at most the file "a-b.t"
InitFs(D) ==
  {[p \in Paths |->
      IF p = [dir |-> "d", name |-> N_Ab] THEN n1
      ELSE IF p = [dir |-> "d", name |-> N_adb] THEN n2
      ELSE IF p = [dir |-> "d", name |-> N_safe] THEN n3
      ELSE IF p = [dir |-> "d", name |-> N_bang] THEN n4
      ELSE IF p = [dir |-> "t", name |-> N_safe] THEN n5
      ELSE Absent] :
     n1 \in AnyNode("c1"),
     n2 \in {Absent, RegularFile("c2")},
     n3 \in AnyNode("c3"),
     n4 \in {Absent, RegularFile("c4")},
     n5 \in (IF D["t"] THEN {Absent, RegularFile("c5")} ELSE {Absent})}

Init ==
  /\ platform \in Platforms
  /\ isdir \in {D \in [DirNames -> BOOLEAN] : D["d"]}
  /\ fs \in InitFs(isdir)
  /\ startFs = fs
  /\ pc = "ready"
  /\ call = NoCall
  /\ result = NoResult
  /\ NormIdle /\ RaceIdle

Call ==
  /\ pc = "ready"
  /\ \E o \in OrigPaths, tg \in Targets, dry \in BOOLEAN, st \in Styles :
       LET r == rename_file(fs, isdir, platform, o, tg, dry, st)
       IN  /\ call' = [orig_path |-> o, target_dir |-> tg,
                       dry_run |-> dry, style |-> st]
           /\ result' = [exc |-> r.exc, by |-> r.by, path |-> r.path]
           /\ fs' = r.fs
  /\ pc' = "returned"
  /\ UNCHANGED <<isdir, platform, startFs, procs>>
  /\ UNCHANGED <<name, style, out, again, npc>>

Next == Call

Spec == Init /\ [][Next]_vars

----------------------------------------------------------------------------
(* SpecRace: two callers of rename_file on one file system, with no lock   *)
(* between them.  Each statement of rename_file that reads or changes the  *)
(* file system is one step, and the steps of the two callers interleave.   *)

RaceOrigs == {[dir |-> "d", name |-> n] : n \in {N_Ab, N_adb, N_safe}}

RaceTargets == {NoDir, "t"}

InitRaceFs ==
  {[p \in Paths |->
      IF p = [dir |-> "d", name |-> N_Ab] THEN RegularFile("c1")
      ELSE IF p = [dir |-> "d", name |-> N_adb] THEN RegularFile("c2")
      ELSE IF p = [dir |-> "d", name |-> N_safe] THEN n3
      ELSE Absent] :
     n3 \in {Absent, RegularFile("c3"), DanglingLink}}

InitRace ==
  /\ platform \in Platforms
  /\ isdir = [dir \in DirNames |-> TRUE]
  /\ fs \in InitRaceFs
  /\ startFs = fs
  /\ procs = [p \in Procs |-> IdleProc]
  /\ NormIdle /\ CallIdle

RaceFrame == UNCHANGED <<name, style, out, again, npc,
                         isdir, platform, startFs, pc, call, result>>

\* the caller raises exc and is done
Raise(p, exc, by) ==
  procs' = [procs EXCEPT ![p].pc = "done", ![p].exc = exc, ![p].by = by]

Goto(p, label) == procs' = [procs EXCEPT ![p].pc = label]

\* the call is made
Start(p) ==
  /\ procs[p].pc = "idle"
  /\ \E o \in RaceOrigs, tg \in RaceTargets, dry \in BOOLEAN, st \in Styles :
       procs' = [procs EXCEPT ![p].pc = "l148", ![p].orig_path = o,
                              ![p].target_dir = tg, ![p].dry_run = dry,
                              ![p].style = st]
  /\ UNCHANGED fs
  /\ RaceFrame

\* if orig_path.is_symlink(): raise OSError
CheckSymlink(p) ==
  /\ procs[p].pc = "l148"
  /\ IF is_symlink(fs, procs[p].orig_path)
     THEN Raise(p, "OSError", "rename_file")
     ELSE Goto(p, "l150")
  /\ UNCHANGED fs
  /\ RaceFrame

\* if not orig_path.is_file(): raise FileNotFoundError
CheckIsFile(p) ==
  /\ procs[p].pc = "l150"
  /\ IF ~is_file(fs, procs[p].orig_path)
     THEN Raise(p, "FileNotFoundError", "rename_file")
     ELSE Goto(p, "l152")
  /\ UNCHANGED fs
  /\ RaceFrame

\* if target_dir and not target_dir.is_dir(): raise NotADirectoryError;
\* new_path = make_safe_path(orig_path, target_dir, style)
CheckTargetAndMakePath(p) ==
  /\ procs[p].pc = "l152"
  /\ LET made == make_safe_path(procs[p].orig_path, procs[p].target_dir,
                                procs[p].style)
     IN  IF procs[p].target_dir # NoDir /\ ~is_dir(isdir, procs[p].target_dir)
         THEN Raise(p, "NotADirectoryError", "rename_file")
         ELSE IF made.exc # "none"
         THEN Raise(p, made.exc, "make_safe_path")
         ELSE procs' = [procs EXCEPT ![p].pc = "l157",
                                     ![p].new_path = made.path]
  /\ UNCHANGED fs
  /\ RaceFrame

\* if not dry_run and new_path.exists(): raise FileExistsError
CheckExists(p) ==
  /\ procs[p].pc = "l157"
  /\ IF ~procs[p].dry_run /\ exists(fs, procs[p].new_path)
     THEN Raise(p, "FileExistsError", "rename_file")
     ELSE Goto(p, "l160")
  /\ UNCHANGED fs
  /\ RaceFrame

\* if not dry_run: orig_path.rename(new_path); return new_path
RenameAndReturn(p) ==
  /\ procs[p].pc = "l160"
  /\ IF procs[p].dry_run
     THEN /\ procs' = [procs EXCEPT ![p].pc = "done", ![p].exc = "none",
                                    ![p].by = "rename_file"]
          /\ UNCHANGED fs
     ELSE LET moved == os_rename(fs, isdir, platform, procs[p].orig_path,
                                 procs[p].new_path)
          IN  /\ procs' = [procs EXCEPT ![p].pc = "done",
                                        ![p].exc = moved.exc,
                                        ![p].by = "os.rename"]
              /\ fs' = moved.fs
  /\ RaceFrame

NextRace ==
  \E p \in Procs :
    \/ Start(p)
    \/ CheckSymlink(p)
    \/ CheckIsFile(p)
    \/ CheckTargetAndMakePath(p)
    \/ CheckExists(p)
    \/ RenameAndReturn(p)

SpecRace == InitRace /\ [][NextRace]_vars

----------------------------------------------------------------------------
(* Properties of the normalizer, checked under SpecNorm.                   *)

DelimiterStyles == {"web", "snake", "kebab"}

\* the delimiter set the specification gives each style
StyleDelims(st) ==
  CASE st = "web"   -> {"-"}
    [] st = "snake" -> {"_"}
    [] st = "kebab" -> {"-"}
    [] st = "camel" -> {}

Computed == npc # "start"

HasChar(s, cs) == \E i \in 1..Len(s) : s[i] \in cs

NoAlnum(s) == \A i \in 1..Len(s) : ~isalnum(s[i])

\* the characters of [a-z0-9] among Chars
AsciiLowerAlnum == {"a", "b", "t", "2"}

\* C1: in every style the output of safe_stem holds only characters of
\* [a-z0-9] and the style's delimiter ("-" for web and kebab, "_" for
\* snake, none for camel).
C1_OnlyLowerAlnumAndDelimiter ==
  Computed =>
    \A i \in 1..Len(out) : out[i] \in AsciiLowerAlnum \cup StyleDelims(style)

\* C2: for web, snake and kebab, normalizing the output of safe_stem again
\* in the same style gives the same string.
C2_Idempotent ==
  (npc = "twice" /\ style \in DelimiterStyles) => again = out

C2_Witness ==
  /\ npc = "twice"
  /\ style = "snake"
  /\ Len(out) >= 3
  /\ out # name
  /\ again = out

\* C3 as stated: in every style a stem with no alphanumeric character
\* (empty, whitespace only, only delimiters or symbols) normalizes to the
\* empty string.
C3_DegenerateIsEmpty ==
  (Computed /\ NoAlnum(name)) => out = <<>>

\* C3 amended: a stem with no alphanumeric character normalizes to the
\* empty string in snake, kebab and camel; in web it does so exactly when
\* it holds no underscore (web keeps underscores), and otherwise the
\* result holds only underscores and hyphens.  No case raises.
C3_DegenerateIsEmptyUnlessWebUnderscore ==
  (Computed /\ NoAlnum(name)) =>
    IF style = "web" /\ HasChar(name, {"_"})
    THEN out # <<>> /\ \A i \in 1..Len(out) : out[i] \in {"_", "-"}
    ELSE out = <<>>

C3_Witness ==
  /\ npc = "once"
  /\ style = "web"
  /\ NoAlnum(name)
  /\ HasChar(name, {"-"}) /\ HasChar(name, {"!"}) /\ HasChar(name, {"."})
  /\ out = <<>>

\* the join of C8: the first segment lower-cased, every later segment with
\* its first character upper-cased and all the others lower-cased
capitalize(s) ==
  [i \in 1..Len(s) |-> IF i = 1 THEN upper(s[i]) ELSE lower(s[i])]

camel_segments(s) ==
  LET parts   == re_split(_normalize_whitespace(s))
      cleaned == [i \in 1..Len(parts) |-> keep_alnum_or(parts[i], {})]
  IN  SelectSeq(cleaned, LAMBDA p : p # <<>>)

camel_as_specified(s) ==
  LET segs == camel_segments(s)
  IN  IF segs = <<>> THEN <<>>
      ELSE str_lower(segs[1])
           \o str_join([i \in 1..(Len(segs) - 1) |-> capitalize(segs[i + 1])])

\* C8: in camel style the output is the first segment lower-cased followed
\* by every later segment with its first character upper-cased and the
\* rest lower-cased, also for segments with digits before letters.
C8_CamelCapitalizesSegments ==
  (Computed /\ style = "camel") => out = camel_as_specified(name)

\* C9: for web, snake and kebab the output never holds the style's
\* delimiter twice in a row, and neither begins nor ends with it.
C9_DelimiterNormalForm ==
  (Computed /\ style \in DelimiterStyles) =>
    LET d == _STYLE_CONFIG(style).delim
    IN  /\ ~has_double(out, d)
        /\ out # <<>> => (out[1] # d /\ out[Len(out)] # d)

C9_Witness ==
  /\ npc = "once"
  /\ style = "kebab"
  /\ has_double(name, "_")
  /\ Len(out) = 3
  /\ out[2] = "-"

----------------------------------------------------------------------------
(* Properties of rename_file, checked under Spec.                          *)

Returned == pc = "returned"

\* the candidate path of the call: make_safe_path on its arguments
Candidate == make_safe_path(call.orig_path, call.target_dir, call.style)

TargetMissing == call.target_dir # NoDir /\ ~is_dir(isdir, call.target_dir)

\* C4: rename_file reports the first precondition that fails, in the order
\* symlink (OSError), not a regular file (FileNotFoundError), target not a
\* directory (NotADirectoryError), empty stem (ValueError), candidate
\* exists and not a dry run (FileExistsError); a symlink is refused
\* whatever else is wrong and whatever dry_run, target_dir and style are.
C4_FirstFailingPreconditionWins ==
  Returned =>
    LET o == call.orig_path
    IN  /\ is_symlink(startFs, o) => result.exc = "OSError"
        /\ (~is_symlink(startFs, o) /\ ~is_file(startFs, o))
             => result.exc = "FileNotFoundError"
        /\ (~is_symlink(startFs, o) /\ is_file(startFs, o) /\ TargetMissing)
             => result.exc = "NotADirectoryError"
        /\ (~is_symlink(startFs, o) /\ is_file(startFs, o) /\ ~TargetMissing
              /\ Candidate.exc = "ValueError")
             => result.exc = "ValueError"
        /\ (~is_symlink(startFs, o) /\ is_file(startFs, o) /\ ~TargetMissing
              /\ Candidate.exc = "none" /\ ~call.dry_run
              /\ exists(startFs, Candidate.path))
             => (result.exc = "FileExistsError" /\ result.by = "rename_file")

\* a dangling link handed over with a missing target directory: the link
\* is refused although the file and the directory checks would fail too
C4_Witness ==
  /\ Returned
  /\ startFs[call.orig_path] = DanglingLink
  /\ TargetMissing
  /\ call.dry_run
  /\ result.exc = "OSError"

\* what the same call does from the same file system without dry_run
NonDryRun ==
  rename_file(startFs, isdir, platform, call.orig_path, call.target_dir,
              FALSE, call.style)

\* C5 as stated: a dry run leaves the file system as it was, and the path
\* it returns is the path the same call without dry_run returns from the
\* same file system.
C5_DryRunReturnsPathOfRealCall ==
  (Returned /\ call.dry_run) =>
    /\ fs = startFs
    /\ result.exc = "none"
         => (NonDryRun.exc = "none" /\ NonDryRun.path = result.path)

\* C5 amended: a dry run leaves the file system as it was; whenever the
\* same call without dry_run returns, the dry run returns the same path;
\* where the dry run returns and that call does not, that call raises
\* FileExistsError and something already lies at the path the dry run
\* returned; a dry run that raises raises what that call raises.
C5_DryRunSamePathUnlessOccupied ==
  (Returned /\ call.dry_run) =>
    /\ fs = startFs
    /\ NonDryRun.exc = "none"
         => (result.exc = "none" /\ result.path = NonDryRun.path)
    /\ (result.exc = "none" /\ NonDryRun.exc # "none")
         => /\ NonDryRun.exc = "FileExistsError"
            /\ startFs[result.path] # Absent
    /\ result.exc # "none" => NonDryRun.exc = result.exc

C5_Witness ==
  /\ Returned
  /\ call.dry_run
  /\ call.target_dir = "t"
  /\ call.style = "camel"
  /\ result.exc = "none"
  /\ NonDryRun.exc = "none"
  /\ NonDryRun.fs # startFs

\* the file system after the single rename of src to dst
AfterRename(F, src, dst) == [F EXCEPT ![dst] = F[src], ![src] = Absent]

\* C6: a call that returns without dry_run has changed the file system by
\* exactly the rename of the original path to the path it returns; every
\* other call (a dry run, a call that raises) leaves every path as it was.
C6_OneMutationOnSuccessOnly ==
  Returned =>
    IF result.exc = "none" /\ ~call.dry_run
    THEN /\ fs = AfterRename(startFs, call.orig_path, result.path)
         /\ fs # startFs
         /\ startFs[call.orig_path].kind = "file"
    ELSE fs = startFs

C6_Witness ==
  /\ Returned
  /\ ~call.dry_run
  /\ result.exc = "none"
  /\ call.target_dir = "t"
  /\ fs[result.path] = RegularFile("c1")
  /\ fs[call.orig_path] = Absent

\* the call is on a regular file whose candidate path is its own path
SamePathCall ==
  /\ startFs[call.orig_path].kind = "file"
  /\ ~TargetMissing
  /\ Candidate.exc = "none"
  /\ Candidate.path = call.orig_path

\* C10: on a regular file whose candidate path is its own path,
\* rename_file without dry_run raises FileExistsError and leaves the file
\* in place, and with dry_run returns that path without error.
C10_SafeNameIsRefusedUnlessDryRun ==
  (Returned /\ SamePathCall) =>
    /\ fs = startFs
    /\ IF call.dry_run
       THEN result.exc = "none" /\ result.path = call.orig_path
       ELSE result.exc = "FileExistsError" /\ result.by = "rename_file"

C10_Witness ==
  /\ Returned
  /\ SamePathCall
  /\ ~call.dry_run
  /\ call.target_dir = "d"
  /\ call.style = "kebab"
  /\ result.exc = "FileExistsError"
  /\ fs[call.orig_path] = RegularFile("c3")

----------------------------------------------------------------------------
(* Two callers racing for one path, checked under SpecRace.                *)

\* both calls are over; they were made without dry_run on two different
\* regular files whose candidate path is the same, and nothing lay at
\* that path when they began
RaceForOnePath ==
  /\ \A p \in Procs : procs[p].pc = "done"
  /\ \A p \in Procs : ~procs[p].dry_run
  /\ procs["p1"].orig_path # procs["p2"].orig_path
  /\ \A p \in Procs : startFs[procs[p].orig_path].kind = "file"
  /\ \A p \in Procs :
       make_safe_path(procs[p].orig_path, procs[p].target_dir,
                      procs[p].style).exc = "none"
  /\ procs["p1"].new_path = procs["p2"].new_path
  /\ \A p \in Procs : procs[p].new_path # procs[p].orig_path
  /\ startFs[procs["p1"].new_path] = Absent

\* C7: of two calls racing to rename two different files to the same path,
\* exactly one succeeds under every interleaving; the other fails with
\* FileExistsError (from its own check or from the rename), and the file
\* the winner put at the destination is not overwritten.
C7_RaceHasOneWinnerNoOverwrite ==
  RaceForOnePath =>
    \E w \in Procs :
      LET l == CHOOSE q \in Procs : q # w
      IN  /\ procs[w].exc = "none"
          /\ procs[l].exc = "FileExistsError"
          /\ fs[procs[w].new_path] = startFs[procs[w].orig_path]
          /\ fs[procs[l].orig_path] = startFs[procs[l].orig_path]

=============================================================================
